---- MODULE Spec2Model ----
(***************************************************************************)
(* Prediction store (validation/database.py) and backtest validator        *)
(* (validation/backtest.py) of Premier-League-Intelligence.                *)
(*                                                                         *)
(* Python strings are sequences of one-character strings, so that lower(), *)
(* replace() and slicing are computed as the code computes them.  A        *)
(* nullable column is a sequence of length at most one: NULL is <<>>.      *)
(* Probabilities are in thousandths, odds in hundredths, where the store   *)
(* only keeps them; where the program computes with them they are floats.  *)
(***************************************************************************)
EXTENDS Integers, Sequences, FiniteSets, TLC

\* db, seq: the predictions table and its AUTOINCREMENT counter.  clock: the
\* time datetime.now() gave last.  last: the last call that returned, with
\* what it returned.  ctx: the values of an analysis run.  calls: the store
\* call each process is in.
VARIABLES db, seq, clock, last, ctx, calls, cache

vars == <<db, seq, clock, last, ctx, calls, cache>>

----------------------------------------------------------------------------
(* Bounds *)

MaxClock == 1
MaxFixtures == 2

----------------------------------------------------------------------------
(* Python values *)

NULL == <<>>
Some(v) == <<v>>
IsNull(x) == x = <<>>
Val(x) == x[1]

Min(a, b) == IF a <= b THEN a ELSE b

Upper == <<"A", "B", "C", "D", "E", "F", "G", "H", "I", "J", "K", "L", "M", "N", "O", "P", "Q", "R", "S", "T", "U", "V", "W", "X", "Y", "Z">>
Lower == <<"a", "b", "c", "d", "e", "f", "g", "h", "i", "j", "k", "l", "m", "n", "o", "p", "q", "r", "s", "t", "u", "v", "w", "x", "y", "z">>

lower_char(c) == IF \E i \in 1..26 : Upper[i] = c
                 THEN Lower[CHOOSE i \in 1..26 : Upper[i] = c]
                 ELSE c

\* str.lower()
lower(s) == [i \in 1..Len(s) |-> lower_char(s[i])]

\* str.replace(old, new) for a one-character old and any new
RECURSIVE replace(_, _, _)
replace(s, old, new) ==
    IF s = <<>> THEN <<>>
    ELSE (IF Head(s) = old THEN new ELSE <<Head(s)>>) \o replace(Tail(s), old, new)

\* s[:n]
prefix(s, n) == SubSeq(s, 1, Min(n, Len(s)))

----------------------------------------------------------------------------
(* Inputs *)

ManUtd == <<"M", "a", "n", "c", "h", "e", "s", "t", "e", "r", " ", "U", "n", "i", "t", "e", "d">>
ManUtdU21 == <<"M", "a", "n", "c", "h", "e", "s", "t", "e", "r", " ", "U", "n", "i", "t", "e", "d", " ", "U", "2", "1">>
ManUtdU23 == <<"M", "a", "n", "c", "h", "e", "s", "t", "e", "r", " ", "U", "n", "i", "t", "e", "d", " ", "U", "2", "3">>
Arsenal == <<"A", "r", "s", "e", "n", "a", "l">>
DrawLabel == <<"D", "r", "a", "w">>
Kickoff1 == <<"2", "0", "2", "4", "-", "0", "1", "-", "0", "1", "T", "1", "5">>
Kickoff1Late == <<"2", "0", "2", "4", "-", "0", "1", "-", "0", "1", "T", "1", "7">>

\* The matches the analysis runs are asked about: (home, away, kickoff).
Matches ==
    { <<ManUtdU21, Arsenal, Kickoff1>>,
      <<ManUtdU23, Arsenal, Kickoff1>>,
      <<ManUtdU21, Arsenal, Kickoff1Late>>,
      <<Arsenal, ManUtd, Kickoff1>> }

\* Arguments (result, home_goals, away_goals) of direct update_result calls;
\* the method does not compare the result with the goals.
ResultInputs == {<<"home", 2, 1>>, <<"draw", 1, 1>>, <<"away", 0, 1>>, <<"home", 0, 1>>}

\* The ten values an analysis run passes besides the match identity.
Payloads(home, away) ==
    { [market_favorite |-> home, market_favorite_prob |-> 480,
       model_favorite |-> away, model_favorite_prob |-> 400,
       home_prob |-> 380, draw_prob |-> 220, away_prob |-> 400,
       home_odds |-> 200, draw_odds |-> 350, away_odds |-> 400],
      [market_favorite |-> DrawLabel, market_favorite_prob |-> 360,
       model_favorite |-> DrawLabel, model_favorite_prob |-> 370,
       home_prob |-> 330, draw_prob |-> 370, away_prob |-> 300,
       home_odds |-> 270, draw_odds |-> 260, away_odds |-> 310] }

----------------------------------------------------------------------------
(* PredictionDB *)

IdNameLen == 20
DatePartLen == 10

make_match_id(home, away, match_date) ==
    LET date_part == replace(prefix(match_date, DatePartLen), "-", <<>>)
        home_clean == prefix(replace(lower(home), " ", <<"_">>), IdNameLen)
        away_clean == prefix(replace(lower(away), " ", <<"_">>), IdNameLen)
    IN  home_clean \o <<"_", "v", "s", "_">> \o away_clean \o <<"_">> \o date_part

\* The Prediction dataclass / one row of the predictions table.
Prediction(id, match_id, home, away, match_date, prediction_time, p, actual_result, home_goals, away_goals) ==
    [id |-> id, match_id |-> match_id,
     home_team |-> home, away_team |-> away, match_date |-> match_date,
     prediction_time |-> prediction_time,
     market_favorite |-> p.market_favorite,
     market_favorite_prob |-> p.market_favorite_prob,
     model_favorite |-> p.model_favorite,
     model_favorite_prob |-> p.model_favorite_prob,
     home_prob |-> p.home_prob, draw_prob |-> p.draw_prob, away_prob |-> p.away_prob,
     home_odds |-> p.home_odds, draw_odds |-> p.draw_odds, away_odds |-> p.away_odds,
     actual_result |-> actual_result, home_goals |-> home_goals, away_goals |-> away_goals]

\* Mutant: the upsert written as INSERT OR REPLACE, which resets the result columns.
update_prediction_rows_replace(d, match_id, p, prediction_time) ==
    { IF r.match_id = match_id
      THEN Prediction(r.id, r.match_id, r.home_team, r.away_team, r.match_date,
                      prediction_time, p, NULL, NULL, NULL)
      ELSE r : r \in d }

\* Mutant: home_prob and away_prob bound in the wrong order in the UPDATE.
update_prediction_rows_swapped(d, match_id, p, prediction_time) ==
    { IF r.match_id = match_id
      THEN [r EXCEPT !.market_favorite = p.market_favorite,
                     !.market_favorite_prob = p.market_favorite_prob,
                     !.model_favorite = p.model_favorite,
                     !.model_favorite_prob = p.model_favorite_prob,
                     !.home_prob = p.away_prob,
                     !.draw_prob = p.draw_prob,
                     !.away_prob = p.home_prob,
                     !.home_odds = p.home_odds,
                     !.draw_odds = p.draw_odds,
                     !.away_odds = p.away_odds,
                     !.prediction_time = prediction_time]
      ELSE r : r \in d }

\* UPDATE predictions SET <prediction columns> WHERE match_id = ?
update_prediction_rows(d, match_id, p, prediction_time) ==
    { IF r.match_id = match_id
      THEN [r EXCEPT !.market_favorite = p.market_favorite,
                     !.market_favorite_prob = p.market_favorite_prob,
                     !.model_favorite = p.model_favorite,
                     !.model_favorite_prob = p.model_favorite_prob,
                     !.home_prob = p.home_prob,
                     !.draw_prob = p.draw_prob,
                     !.away_prob = p.away_prob,
                     !.home_odds = p.home_odds,
                     !.draw_odds = p.draw_odds,
                     !.away_odds = p.away_odds,
                     !.prediction_time = prediction_time]
      ELSE r : r \in d }

\* Mutant: the UPDATE without its WHERE clause.
update_result_rows_all(d, match_id, result, home_goals, away_goals) ==
    { [r EXCEPT !.actual_result = Some(result),
                !.home_goals = Some(home_goals),
                !.away_goals = Some(away_goals)] : r \in d }

\* UPDATE predictions SET actual_result, home_goals, away_goals WHERE match_id = ?
update_result_rows(d, match_id, result, home_goals, away_goals) ==
    { IF r.match_id = match_id
      THEN [r EXCEPT !.actual_result = Some(result),
                     !.home_goals = Some(home_goals),
                     !.away_goals = Some(away_goals)]
      ELSE r : r \in d }

\* Mutant: the connection's total row count instead of the statement's.
rowcount_total(d, match_id) == Cardinality(d)

\* cursor.rowcount of that UPDATE
rowcount(d, match_id) == Cardinality({r \in d : r.match_id = match_id})

\* rows in rowid order, as a SELECT without ORDER BY returns them
RECURSIVE query(_)
query(rows) ==
    IF rows = {} THEN <<>>
    ELSE LET r == CHOOSE x \in rows : \A y \in rows : x.id <= y.id
         IN  <<r>> \o query(rows \ {r})

\* Mutant: the SELECT without "WHERE actual_result IS NULL".
get_pending_all(d) == query(d)

get_pending(d) == query({r \in d : IsNull(r.actual_result)})

\* Mutant: the SELECT without "WHERE actual_result IS NOT NULL".
get_validated_all(d) == query(d)

get_validated(d) == query({r \in d : ~IsNull(r.actual_result)})

match_id_of == [m \in Matches |-> make_match_id(m[1], m[2], m[3])]

\* The thirteen keyword arguments of save_prediction, read off a Prediction.
Inputs(x) ==
    <<x.home_team, x.away_team, x.match_date,
      x.market_favorite, x.market_favorite_prob, x.model_favorite, x.model_favorite_prob,
      x.home_prob, x.draw_prob, x.away_prob, x.home_odds, x.draw_odds, x.away_odds>>

\* SELECT id, actual_result, home_goals, away_goals FROM predictions WHERE match_id = ?
select_row(d, match_id) == {r \in d : r.match_id = match_id}

\* The statements after the SELECT; found is what the SELECT returned.
\* last.existed: the "if row" branch was taken.  last.repeated: the call has the
\* same arguments as the call before it, with no other operation in between.
save_prediction_write(home, away, match_date, p, now, found) ==
    LET match_id == match_id_of[<<home, away, match_date>>]
        returned(id, actual_result, home_goals, away_goals) ==
            Prediction(id, match_id, home, away, match_date, now, p,
                       actual_result, home_goals, away_goals)
        repeated(ret) ==
            last.op = "save_prediction" /\ ~last.raised /\ Inputs(last.ret) = Inputs(ret)
    IN  /\ clock' = now
        /\ IF found # {}
           THEN \E row \in found :
                  LET ret == returned(row.id, row.actual_result, row.home_goals, row.away_goals)
                  IN  /\ db' = update_prediction_rows(db, match_id, p, now)
                      /\ seq' = seq
                      /\ last' = [op |-> "save_prediction", raised |-> FALSE, ret |-> ret,
                                  existed |-> TRUE, repeated |-> repeated(ret)]
           ELSE LET ret == returned(seq + 1, NULL, NULL, NULL)
                IN  IF \E r \in db : r.match_id = ret.match_id
                    THEN \* match_id TEXT UNIQUE: IntegrityError, the transaction rolls back
                         /\ UNCHANGED <<db, seq>>
                         /\ last' = [op |-> "save_prediction", raised |-> TRUE]
                    ELSE /\ db' = db \cup {ret}
                         /\ seq' = seq + 1
                         /\ last' = [op |-> "save_prediction", raised |-> FALSE, ret |-> ret,
                                     existed |-> FALSE, repeated |-> repeated(ret)]

\* Mutant: a plain INSERT, with neither the existence check nor the UNIQUE column.
save_prediction_insert_only(home, away, match_date, p, now) ==
    LET ret == Prediction(seq + 1, match_id_of[<<home, away, match_date>>],
                          home, away, match_date, now, p, NULL, NULL, NULL)
    IN  /\ clock' = now
        /\ db' = db \cup {ret}
        /\ seq' = seq + 1
        /\ last' = [op |-> "save_prediction", raised |-> FALSE, ret |-> ret,
                    existed |-> FALSE, repeated |-> FALSE]

save_prediction(home, away, match_date, p, now) ==
    save_prediction_write(home, away, match_date, p, now,
                          select_row(db, match_id_of[<<home, away, match_date>>]))

update_result(match_id, result, home_goals, away_goals) ==
    /\ db' = update_result_rows(db, match_id, result, home_goals, away_goals)
    /\ last' = [op |-> "update_result", raised |-> FALSE,
                ret |-> rowcount(db, match_id) > 0]
    /\ UNCHANGED <<seq, clock>>

\* round(count / n * 100, 1) in tenths of a percent, ties to even
rate(count, n) ==
    LET q == (count * 1000) \div n
        r == (count * 1000) % n
    IN  IF 2 * r > n \/ (2 * r = n /\ q % 2 = 1) THEN q + 1 ELSE q

\* Mutant: the away team's name for a home win and the home team's for an away win.
winner_swapped(p) ==
    IF p.actual_result = Some("home") THEN p.away_team
    ELSE IF p.actual_result = Some("away") THEN p.home_team
    ELSE DrawLabel

winner(p) ==
    IF p.actual_result = Some("home") THEN p.home_team
    ELSE IF p.actual_result = Some("away") THEN p.away_team
    ELSE DrawLabel

\* The metrics computed from the two lists get_metrics has read.
metrics_of(validated, pending) ==
    LET n == Len(validated)
        rows == {validated[i] : i \in 1..n}
        market_correct == Cardinality({p \in rows : p.market_favorite = winner(p)})
        model_correct == Cardinality({p \in rows : p.model_favorite = winner(p)})
        disagreed == {p \in rows : p.market_favorite # p.model_favorite}
    IN  [total |-> Len(validated) + Len(pending),
         validated |-> n,
         pending |-> Len(pending),
         market_correct |-> market_correct,
         model_correct |-> model_correct,
         market_accuracy |-> IF n # 0 THEN rate(market_correct, n) ELSE 0,
         model_accuracy |-> IF n # 0 THEN rate(model_correct, n) ELSE 0,
         disagreements |-> Cardinality(disagreed),
         model_wins_when_disagreed |->
             Cardinality({p \in disagreed : p.model_favorite = winner(p)})]

get_metrics(d) == metrics_of(get_validated(d), get_pending(d))

----------------------------------------------------------------------------
(* BacktestRunner *)

KeyNameLen == 15

\* Mutant: the names not cut to 15 characters.
make_lookup_key_uncut(home, away, date) ==
    LET home_norm == replace(lower(home), " ", <<>>)
        away_norm == replace(lower(away), " ", <<>>)
        date_norm == replace(date, "-", <<>>)
    IN  home_norm \o <<"_">> \o away_norm \o <<"_">> \o date_norm

make_lookup_key(home, away, date) ==
    LET home_norm == prefix(replace(lower(home), " ", <<>>), KeyNameLen)
        away_norm == prefix(replace(lower(away), " ", <<>>), KeyNameLen)
        date_norm == replace(date, "-", <<>>)
    IN  home_norm \o <<"_">> \o away_norm \o <<"_">> \o date_norm

\* A fixture of the API response: teams.home.name, teams.away.name,
\* fixture.date, goals.home, goals.away (a goal count may be null).
Fixture(home, away, date, home_goals, away_goals) ==
    [home |-> home, away |-> away, date |-> date,
     home_goals |-> home_goals, away_goals |-> away_goals]

Fixtures ==
    { Fixture(ManUtd, Arsenal, Kickoff1, Some(2), Some(1)),
      Fixture(ManUtd, Arsenal, Kickoff1, Some(0), Some(1)),
      Fixture(Arsenal, ManUtd, Kickoff1, Some(1), Some(1)),
      Fixture(Arsenal, ManUtd, Kickoff1, Some(0), NULL) }

RECURSIVE SeqsUpTo(_, _)
SeqsUpTo(S, n) ==
    IF n = 0 THEN {<<>>}
    ELSE LET shorter == SeqsUpTo(S, n - 1)
         IN  shorter \cup {Append(l, x) : l \in shorter, x \in S}

FixtureLists == SeqsUpTo(Fixtures, MaxFixtures)

\* What football_api.get_completed_fixtures does: returns a list or raises.
FetchOutcomes ==
    {[raised |-> FALSE, fixtures |-> l] : l \in FixtureLists}
        \cup {[raised |-> TRUE, fixtures |-> <<>>]}

\* Mutant: falls back to a canned fixture when the request fails.
fetch_completed_fixtures_fallback(outcome) ==
    IF outcome.raised
    THEN <<Fixture(ManUtd, Arsenal, Kickoff1, Some(2), Some(1))>>
    ELSE outcome.fixtures

fetch_completed_fixtures(outcome) ==
    IF outcome.raised THEN <<>> ELSE outcome.fixtures

lookup_key_of ==
    [t \in {<<m[1], m[2], prefix(m[3], DatePartLen)>> : m \in Matches}
           \cup {<<f.home, f.away, prefix(f.date, DatePartLen)>> : f \in Fixtures}
       |-> make_lookup_key(t[1], t[2], t[3])]

fixture_key(fixture) ==
    lookup_key_of[<<fixture.home, fixture.away, prefix(fixture.date, DatePartLen)>>]

\* Mutant: the two goal comparisons exchanged.
RECURSIVE results_lookup_swapped(_, _)
results_lookup_swapped(completed, acc) ==
    IF completed = <<>> THEN acc
    ELSE LET fixture == Head(completed)
             key == fixture_key(fixture)
             home_goals == fixture.home_goals
             away_goals == fixture.away_goals
             result == IF Val(home_goals) > Val(away_goals) THEN "away"
                       ELSE IF Val(away_goals) > Val(home_goals) THEN "home"
                       ELSE "draw"
         IN  IF ~IsNull(home_goals) /\ ~IsNull(away_goals)
             THEN results_lookup_swapped(Tail(completed),
                      [k \in DOMAIN acc \cup {key} |->
                          IF k = key
                          THEN [result |-> result, home_goals |-> Val(home_goals),
                                away_goals |-> Val(away_goals)]
                          ELSE acc[k]])
             ELSE results_lookup_swapped(Tail(completed), acc)

\* lines 33-57: the dict keyed by normalized names and date
RECURSIVE results_lookup(_, _)
results_lookup(completed, acc) ==
    IF completed = <<>> THEN acc
    ELSE LET fixture == Head(completed)
             key == fixture_key(fixture)
             home_goals == fixture.home_goals
             away_goals == fixture.away_goals
             result == IF Val(home_goals) > Val(away_goals) THEN "home"
                       ELSE IF Val(away_goals) > Val(home_goals) THEN "away"
                       ELSE "draw"
         IN  IF ~IsNull(home_goals) /\ ~IsNull(away_goals)
             THEN results_lookup(Tail(completed),
                      [k \in DOMAIN acc \cup {key} |->
                          IF k = key
                          THEN [result |-> result, home_goals |-> Val(home_goals),
                                away_goals |-> Val(away_goals)]
                          ELSE acc[k]])
             ELSE results_lookup(Tail(completed), acc)

EmptyDict == [k \in {} |-> 0]

pred_key(pred) ==
    lookup_key_of[<<pred.home_team, pred.away_team, prefix(pred.match_date, DatePartLen)>>]

\* Mutant: the two goal counts handed to update_result in the other order.
RECURSIVE update_pending_goals_swapped(_, _, _)
update_pending_goals_swapped(pending, lookup, st) ==
    IF pending = <<>> THEN st
    ELSE LET pred == Head(pending)
             key == pred_key(pred)
         IN  IF key \in DOMAIN lookup
             THEN update_pending_goals_swapped(Tail(pending), lookup,
                      [db |-> update_result_rows(st.db, pred.match_id, lookup[key].result,
                                                 lookup[key].away_goals, lookup[key].home_goals),
                       updated |-> st.updated + 1,
                       still_pending |-> st.still_pending])
             ELSE update_pending_goals_swapped(Tail(pending), lookup,
                      [st EXCEPT !.still_pending = st.still_pending + 1])

\* lines 59-77: the loop over the pending predictions; st is (db, updated, still_pending)
RECURSIVE update_pending(_, _, _)
update_pending(pending, lookup, st) ==
    IF pending = <<>> THEN st
    ELSE LET pred == Head(pending)
             key == pred_key(pred)
         IN  IF key \in DOMAIN lookup
             THEN update_pending(Tail(pending), lookup,
                      [db |-> update_result_rows(st.db, pred.match_id, lookup[key].result,
                                                 lookup[key].home_goals, lookup[key].away_goals),
                       updated |-> st.updated + 1,
                       still_pending |-> st.still_pending])
             ELSE update_pending(Tail(pending), lookup,
                      [st EXCEPT !.still_pending = st.still_pending + 1])

\* last.fetch: whether the fixtures were fetched ("none": the early return of
\* line 27), and last.completed: the list _fetch_completed_fixtures returned.
validate_pending(outcome) ==
    LET pending == get_pending(db)
    IN  /\ UNCHANGED <<seq, clock>>
        /\ IF pending = <<>>
           THEN /\ db' = db
                /\ last' = [op |-> "validate_pending", raised |-> FALSE, fetch |-> "none",
                            completed |-> <<>>,
                            ret |-> [updated |-> 0, not_found |-> 0, still_pending |-> 0]]
           ELSE LET completed == fetch_completed_fixtures(outcome)
                    lookup == results_lookup(completed, EmptyDict)
                    st == update_pending(pending, lookup,
                              [db |-> db, updated |-> 0, still_pending |-> 0])
                IN  /\ db' = st.db
                    /\ last' = [op |-> "validate_pending", raised |-> FALSE,
                                fetch |-> IF outcome.raised THEN "error" ELSE "ok",
                                completed |-> completed,
                                ret |-> [updated |-> st.updated,
                                         not_found |-> Len(pending) - st.updated - st.still_pending,
                                         still_pending |-> st.still_pending]]

----------------------------------------------------------------------------
(* SimpleCache *)
(* self._cache is a dict: a function from its keys to (timestamp, value).  *)

\* The ttl_seconds the cache is constructed with.
ttl_seconds == 0

\* key in self._cache
has_key(d, key) == key \in DOMAIN d

\* self._cache[key] = item
set_item(d, key, item) == [k \in DOMAIN d \cup {key} |-> IF k = key THEN item ELSE d[k]]

\* del self._cache[key], for a key the dict has
del_item(d, key) == [k \in DOMAIN d \ {key} |-> d[k]]

\* time.time() - timestamp > self.ttl_seconds
expired(now, timestamp) == now - timestamp > ttl_seconds

----------------------------------------------------------------------------
(* Python floats *)
(* A float is [m, e] with value m * 2^e: binary floating point, every        *)
(* operation rounded to nearest, ties to even, as IEEE 754 prescribes.  The  *)
(* significand has FloatBits bits (CPython's has 53); the exponent is not    *)
(* bounded.  A non-zero float is normalised, so equal values are equal       *)
(* records.                                                                  *)

FloatBits == 11

Abs(n) == IF n < 0 THEN 0 - n ELSE n

Sign(n) == IF n < 0 THEN 0 - 1 ELSE 1

Zero == [m |-> 0, e |-> 0]

RECURSIVE BitLen(_)
BitLen(n) == IF n = 0 THEN 0 ELSE 1 + BitLen(n \div 2)

\* n / 2^k rounded to an integer, ties to even
RoundShift(n, k) ==
    LET q == n \div 2^k
        r == n % 2^k
        half == 2^(k - 1)
    IN  IF r > half \/ (r = half /\ q % 2 = 1) THEN q + 1 ELSE q

\* The float nearest to sign * n * 2^e, for n >= 0.
Round(sign, n, e) ==
    LET len == BitLen(n)
        k == len - FloatBits
        q == RoundShift(n, k)
    IN  IF n = 0 THEN Zero
        ELSE IF k <= 0 THEN [m |-> sign * n * 2^(0 - k), e |-> e + k]
        ELSE IF q = 2^FloatBits THEN [m |-> sign * 2^(FloatBits - 1), e |-> e + k + 1]
        ELSE [m |-> sign * q, e |-> e + k]

\* Long division: the quotient bits of r / d after the integer part q, until
\* the quotient has FloatBits + 2 bits; one more bit tells a remainder is left.
RECURSIVE Quotient(_, _, _, _)
Quotient(q, r, d, e) ==
    IF q >= 2^(FloatBits + 1)
    THEN [n |-> 2 * q + (IF r = 0 THEN 0 ELSE 1), e |-> e - 1]
    ELSE IF 2 * r >= d THEN Quotient(2 * q + 1, 2 * r - d, d, e - 1)
    ELSE Quotient(2 * q, 2 * r, d, e - 1)

\* The float nearest to n / d, for integers n >= 0 and d > 0: how a decimal
\* literal such as 0.15 = 15 / 100 is read.
Ratio(n, d) ==
    LET x == Quotient(n \div d, n % d, d, 0)
    IN  IF n = 0 THEN Zero ELSE Round(1, x.n, x.e)

Float(n) == Round(Sign(n), Abs(n), 0)

fneg(x) == [m |-> 0 - x.m, e |-> x.e]

fabs(x) == [m |-> Abs(x.m), e |-> x.e]

fmul(x, y) == Round(Sign(x.m) * Sign(y.m), Abs(x.m) * Abs(y.m), x.e + y.e)

fdiv(x, y) ==
    LET q == Ratio(Abs(x.m), Abs(y.m))
    IN  [m |-> Sign(x.m) * Sign(y.m) * q.m, e |-> IF q.m = 0 THEN 0 ELSE q.e + x.e - y.e]

\* x + y for x.e >= y.e; an addend below a quarter of the last place of the
\* other leaves it as it is.
fadd_aligned(x, y) ==
    LET n == x.m * 2^(x.e - y.e) + y.m
    IN  IF x.e - y.e > FloatBits + 2 THEN x ELSE Round(Sign(n), Abs(n), y.e)

fadd(x, y) ==
    IF x.m = 0 THEN y
    ELSE IF y.m = 0 THEN x
    ELSE IF x.e >= y.e THEN fadd_aligned(x, y)
    ELSE fadd_aligned(y, x)

fsub(x, y) == fadd(x, fneg(y))

flt(x, y) == fsub(x, y).m < 0

fle(x, y) == fsub(x, y).m <= 0

\* max(a, b) of Python: b if b > a, else a
fmax(a, b) == IF flt(a, b) THEN b ELSE a

\* the digits of format(x, ".3f") for 0 <= x < 10: x in thousandths, ties to even
thousandths(x) ==
    IF x.e >= 0 THEN x.m * 2^x.e * 1000
    ELSE IF 0 - x.e > 30 THEN 0
    ELSE RoundShift(x.m * 1000, 0 - x.e)

Digit(n) == CASE n = 0 -> "0" [] n = 1 -> "1" [] n = 2 -> "2" [] n = 3 -> "3" [] n = 4 -> "4" [] n = 5 -> "5" [] n = 6 -> "6" [] n = 7 -> "7" [] n = 8 -> "8" [] n = 9 -> "9"

format_3f(x) ==
    LET t == thousandths(x)
    IN  <<Digit(t \div 1000), ".", Digit((t \div 100) % 10), Digit((t \div 10) % 10), Digit(t % 10)>>

----------------------------------------------------------------------------
(* Agents *)
(* A call that raises returns [error |-> its exception]; a call that returns *)
(* has error "none".                                                         *)

One == Float(1)

\* Field(ge=0.0, le=1.0) of the pydantic schemas
is_probability(x) == fle(Zero, x) /\ fle(x, One)

RawOdds(home_win, draw, away_win) == [home_win |-> home_win, draw |-> draw, away_win |-> away_win]

\* OddsAgent
\* Mutant: returns the reciprocals as they are, overround included.
implied_probabilities_raw(raw_odds) ==
    LET raw_home == fdiv(One, raw_odds.home_win)
        raw_draw == fdiv(One, raw_odds.draw)
        raw_away == fdiv(One, raw_odds.away_win)
    IN  [error |-> "none", home |-> raw_home, draw |-> raw_draw, away |-> raw_away,
         overround |-> fadd(fadd(raw_home, raw_draw), raw_away)]

implied_probabilities(raw_odds) ==
    LET raw_home == fdiv(One, raw_odds.home_win)
        raw_draw == fdiv(One, raw_odds.draw)
        raw_away == fdiv(One, raw_odds.away_win)
        overround == fadd(fadd(raw_home, raw_draw), raw_away)
        home == fdiv(raw_home, overround)
        draw == fdiv(raw_draw, overround)
        away == fdiv(raw_away, overround)
    IN  IF fle(overround, Zero) THEN [error |-> "ValueError"]
        ELSE IF ~(is_probability(home) /\ is_probability(draw) /\ is_probability(away))
        THEN [error |-> "ValidationError"]
        ELSE [error |-> "none", home |-> home, draw |-> draw, away |-> away,
              overround |-> overround]

\* ImpactModelingAgent
SHIFT_PER_NET_XG == Ratio(15, 100)

MAX_ABS_SHIFT == Ratio(15, 100)

EPS == Ratio(1, 1000000000)

\* sum() of Python over a list of floats: 0 + s[1] + ... + s[n]
RECURSIVE sum(_)
sum(s) == IF s = <<>> THEN Zero ELSE fadd(sum(SubSeq(s, 1, Len(s) - 1)), s[Len(s)])

\* team_news.home and team_news.away are the estimated_xg_impact values of the
\* absences of the two sides
expected_goals_adjustment(team_news) ==
    [home_xg_delta |-> sum(team_news.home), away_xg_delta |-> sum(team_news.away)]

\* Mutant: the shift without its clamp.
shift_of_unclamped(xg_adj) ==
    fmul(fsub(xg_adj.home_xg_delta, xg_adj.away_xg_delta), SHIFT_PER_NET_XG)

shift_of(xg_adj) ==
    LET net_xg == fsub(xg_adj.home_xg_delta, xg_adj.away_xg_delta)
        shift == fmul(net_xg, SHIFT_PER_NET_XG)
    IN  IF flt(MAX_ABS_SHIFT, shift) THEN MAX_ABS_SHIFT
        ELSE IF flt(shift, fneg(MAX_ABS_SHIFT)) THEN fneg(MAX_ABS_SHIFT)
        ELSE shift

\* Mutant: normalises without the floor at EPS.
clip_and_normalize_unclipped(home0, draw0, away0) ==
    LET s == fadd(fadd(home0, draw0), away0)
    IN  IF fle(s, Zero) THEN [error |-> "ValueError"]
        ELSE [error |-> "none", home |-> fdiv(home0, s), draw |-> fdiv(draw0, s),
              away |-> fdiv(away0, s)]

clip_and_normalize(home0, draw0, away0) ==
    LET home == fmax(home0, EPS)
        draw == fmax(draw0, EPS)
        away == fmax(away0, EPS)
        s == fadd(fadd(home, draw), away)
    IN  IF fle(s, Zero) THEN [error |-> "ValueError"]
        ELSE [error |-> "none", home |-> fdiv(home, s), draw |-> fdiv(draw, s),
              away |-> fdiv(away, s)]

adjusted_probabilities(market, xg_adj) ==
    LET shift == shift_of(xg_adj)
        home == fadd(market.home, shift)
        away == fsub(market.away, shift)
        draw == market.draw
        probs == clip_and_normalize(home, draw, away)
    IN  IF probs.error # "none" THEN probs
        ELSE IF ~(is_probability(probs.home) /\ is_probability(probs.draw) /\ is_probability(probs.away))
        THEN [error |-> "ValidationError"]
        ELSE probs

\* ImpactModelingAgent.model
model_impact(market, team_news) ==
    LET xg_adj == expected_goals_adjustment(team_news)
    IN  [xg_adjustment |-> xg_adj, adjusted_probabilities |-> adjusted_probabilities(market, xg_adj)]

\* DiscrepancyAnalysisAgent
MarketDiscrepancy(outcome, market_probability, model_probability) ==
    [outcome |-> outcome, market_probability |-> market_probability,
     model_probability |-> model_probability,
     delta |-> fsub(model_probability, market_probability)]

\* list.sort(key=lambda d: abs(d.delta), reverse=True): a stable sort, so d goes
\* behind every entry whose key is not smaller than its own
\* Mutant: d goes before the entries whose key equals its own.
RECURSIVE insert_by_abs_delta_unstable(_, _)
insert_by_abs_delta_unstable(sorted, d) ==
    IF sorted = <<>> THEN <<d>>
    ELSE IF fle(fabs(Head(sorted).delta), fabs(d.delta)) THEN <<d>> \o sorted
    ELSE <<Head(sorted)>> \o insert_by_abs_delta_unstable(Tail(sorted), d)

RECURSIVE insert_by_abs_delta(_, _)
insert_by_abs_delta(sorted, d) ==
    IF sorted = <<>> THEN <<d>>
    ELSE IF flt(fabs(Head(sorted).delta), fabs(d.delta)) THEN <<d>> \o sorted
    ELSE <<Head(sorted)>> \o insert_by_abs_delta(Tail(sorted), d)

\* Mutant: the list left in the order it was built in.
sort_by_abs_delta_none(s) == s

RECURSIVE sort_by_abs_delta(_)
sort_by_abs_delta(s) ==
    IF s = <<>> THEN <<>>
    ELSE insert_by_abs_delta(sort_by_abs_delta(SubSeq(s, 1, Len(s) - 1)), s[Len(s)])

analyze(market, model) ==
    sort_by_abs_delta(<<MarketDiscrepancy("home", market.home, model.home),
                        MarketDiscrepancy("draw", market.draw, model.draw),
                        MarketDiscrepancy("away", market.away, model.away)>>)

\* ReportWriterAgent
\* max(options, key=probability): the first option no later option exceeds
\* Mutant: the last of the options no other exceeds.
RECURSIVE max_by_probability_last(_)
max_by_probability_last(options) ==
    IF Len(options) = 1 THEN options[1]
    ELSE LET best == max_by_probability_last(SubSeq(options, 1, Len(options) - 1))
             o == options[Len(options)]
         IN  IF fle(best.probability, o.probability) THEN o ELSE best

RECURSIVE max_by_probability(_)
max_by_probability(options) ==
    IF Len(options) = 1 THEN options[1]
    ELSE LET best == max_by_probability(SubSeq(options, 1, Len(options) - 1))
             o == options[Len(options)]
         IN  IF flt(best.probability, o.probability) THEN o ELSE best

favorite_from_probabilities(home_team, away_team, home, draw, away) ==
    max_by_probability(<<[outcome |-> "home", label |-> home_team, probability |-> home],
                         [outcome |-> "draw", label |-> DrawLabel, probability |-> draw],
                         [outcome |-> "away", label |-> away_team, probability |-> away]>>)

\* The conclusion sentence, by its three variable parts.
format_conclusion(discrepancies) ==
    IF discrepancies = <<>> THEN [text |-> "No discrepancy items were generated."]
    ELSE LET top == discrepancies[1]
         IN  [text |-> "Summary",
              outcome |-> top.outcome,
              direction |-> IF flt(Zero, top.delta) THEN "higher" ELSE "lower",
              by |-> format_3f(fabs(top.delta))]

write(match, implied, adjusted, team_news, discrepancies) ==
    [match_summary |-> match,
     market_favorite |-> favorite_from_probabilities(match[1], match[2], implied.home, implied.draw, implied.away),
     model_favorite |-> favorite_from_probabilities(match[1], match[2], adjusted.home, adjusted.draw, adjusted.away),
     key_team_news |-> team_news,
     discrepancies |-> discrepancies,
     conclusion |-> format_conclusion(discrepancies)]

\* _save_prediction of the CLI and the save of /analyze and /analyze-all: the
\* arguments they hand to PredictionDB.save_prediction.
save_arguments(raw_odds, report) ==
    LET discrepancies == report.discrepancies
    IN  [market_favorite |-> report.market_favorite.label,
         market_favorite_prob |-> report.market_favorite.probability,
         model_favorite |-> report.model_favorite.label,
         model_favorite_prob |-> report.model_favorite.probability,
         home_prob |-> IF Len(discrepancies) > 0 THEN discrepancies[1].model_probability ELSE Zero,
         draw_prob |-> IF Len(discrepancies) > 1 THEN discrepancies[2].model_probability ELSE Zero,
         away_prob |-> IF Len(discrepancies) > 2 THEN discrepancies[3].model_probability ELSE Zero,
         home_odds |-> raw_odds.home_win, draw_odds |-> raw_odds.draw, away_odds |-> raw_odds.away_win]

----------------------------------------------------------------------------
(* OddsAPIClient *)
(* A match of the API response is [home_team, away_team, bookmakers]; a      *)
(* bookmaker is the three prices its h2h market gives for the home team,     *)
(* "Draw" and the away team, in hundredths, NULL for an outcome it lacks.    *)

\* "if home_win and draw and away_win": no price is None or 0
all_truthy(prices) == \A i \in 1..3 : ~IsNull(prices[i]) /\ Val(prices[i]) # 0

\* Field(..., gt=1.0) on the three fields of RawOdds
gt_one(prices) == \A i \in 1..3 : Val(prices[i]) > 100

\* _extract_odds on the bookmakers of a match: the RawOdds, None, or the
\* ValidationError of the RawOdds constructor.
RECURSIVE extract_odds(_)
extract_odds(bookmakers) ==
    IF bookmakers = <<>> THEN [error |-> "none", odds |-> NULL]
    ELSE LET prices == Head(bookmakers)
         IN  IF all_truthy(prices)
             THEN IF gt_one(prices) THEN [error |-> "none", odds |-> Some(prices)]
                  ELSE [error |-> "ValidationError"]
             ELSE extract_odds(Tail(bookmakers))

\* The loop of get_all_upcoming_matches over the matches left, result so far.
RECURSIVE get_all_upcoming_matches(_, _)
get_all_upcoming_matches(matches, result) ==
    IF matches = <<>> THEN [error |-> "none", result |-> result]
    ELSE LET match == Head(matches)
             odds == extract_odds(match.bookmakers)
         IN  IF odds.error # "none" THEN [error |-> odds.error]
             ELSE IF ~IsNull(odds.odds)
             THEN get_all_upcoming_matches(Tail(matches),
                      Append(result, [home_team |-> match.home_team,
                                      away_team |-> match.away_team,
                                      odds |-> Val(odds.odds)]))
             ELSE get_all_upcoming_matches(Tail(matches), result)

----------------------------------------------------------------------------
(* Specifications *)

MatchIds == {match_id_of[m] : m \in Matches}

\* No analysis has run.
NoContext == [step |-> "none"]

Processes == {"cli", "api"}

\* The process is in no call of the store.
Idle == [pc |-> "idle"]

SavePrediction ==
    \E m \in Matches, now \in clock..MaxClock :
        \E p \in Payloads(m[1], m[2]) :
            save_prediction(m[1], m[2], m[3], p, now) /\ UNCHANGED <<ctx, calls, cache>>

UpdateResult ==
    \E match_id \in MatchIds, r \in ResultInputs :
        update_result(match_id, r[1], r[2], r[3]) /\ UNCHANGED <<ctx, calls, cache>>

ValidatePending ==
    \E outcome \in FetchOutcomes : validate_pending(outcome) /\ UNCHANGED <<ctx, calls, cache>>

Init ==
    /\ db = {}
    /\ seq = 0
    /\ clock = 0
    /\ last = [op |-> "init", raised |-> FALSE]
    /\ ctx = NoContext
    /\ calls = [t \in Processes |-> Idle]
    /\ cache = EmptyDict

\* The store under its two writers.
Next == SavePrediction \/ UpdateResult

Spec == Init /\ [][Next]_vars

\* The store under its two writers and the metrics reader.

GetMetrics ==
    /\ last' = [op |-> "get_metrics", raised |-> FALSE, ret |-> get_metrics(db)]
    /\ UNCHANGED <<db, seq, clock, ctx, calls, cache>>

NextMetrics == SavePrediction \/ UpdateResult \/ GetMetrics

SpecMetrics == Init /\ [][NextMetrics]_vars

\* The store under analysis runs and validator runs.

\* All analysis runs of a validation period read the same clock value.
SavePredictionNow ==
    \E m \in Matches :
        \E p \in Payloads(m[1], m[2]) :
            save_prediction(m[1], m[2], m[3], p, clock) /\ UNCHANGED <<ctx, calls, cache>>

NextValidator == SavePredictionNow \/ ValidatePending

SpecValidator == Init /\ [][NextValidator]_vars

\* The store under analysis runs, direct result updates and validator runs.

NextStore == SavePredictionNow \/ UpdateResult \/ ValidatePending

SpecStore == Init /\ [][NextStore]_vars

\* The agents, each applied to inputs of its own.

\* Decimal prices, each greater than 1.0
OddsInputs ==
    {RawOdds(Ratio(h[1], h[2]), Ratio(d[1], d[2]), Ratio(a[1], a[2])) :
        h \in {<<137, 100>>, <<2, 1>>, <<342, 100>>},
        d \in {<<35, 10>>, <<567, 100>>},
        a \in {<<137, 100>>, <<4, 1>>, <<19, 1>>}}

Triple(home, draw, away) == [home |-> home, draw |-> draw, away |-> away]

\* Probability triples: what the odds imply, and triples written in decimals.
Triples ==
    {LET i == implied_probabilities(o) IN Triple(i.home, i.draw, i.away) : o \in OddsInputs}
    \cup {Triple(Ratio(t[1], 1000), Ratio(t[2], 1000), Ratio(t[3], 1000)) :
            t \in {<<480, 220, 300>>, <<500, 250, 250>>, <<250, 250, 500>>,
                   <<250, 500, 250>>, <<375, 375, 250>>, <<250, 375, 375>>,
                   <<375, 250, 375>>, <<900, 50, 50>>, <<50, 150, 800>>,
                   <<500, 500, 0>>, <<1000, 0, 0>>,
                   <<0, 0, 0>>, <<1000, 1000, 1000>>}}

\* estimated_xg_impact values
XgImpacts == {fneg(Float(2)), fneg(Ratio(67, 100)), fneg(Ratio(3, 10)), Zero, Ratio(3, 10), Ratio(12, 10)}

XgAdjustments == {[home_xg_delta |-> h, away_xg_delta |-> a] : h \in XgImpacts, a \in XgImpacts}

AbsenceLists == {<<>>} \cup {<<x>> : x \in XgImpacts} \cup {<<fneg(Ratio(3, 10)), x>> : x \in XgImpacts}

TeamNewsInputs == {[home |-> h, away |-> a] : h \in AbsenceLists, a \in AbsenceLists}

\* Discrepancy lists: none, and what analyze returns.
DiscrepancyLists == {<<>>} \cup {analyze(t, u) : t \in Triples, u \in Triples}

\* The calls the agents are given: ctx holds the call, last what it returned.
AgentCalls ==
    {[step |-> "call", op |-> "implied_probabilities", raw_odds |-> o] : o \in OddsInputs}
    \cup {[step |-> "call", op |-> "adjusted_probabilities", market |-> t, xg_adj |-> x] :
            t \in Triples, x \in XgAdjustments}
    \cup {[step |-> "call", op |-> "expected_goals_adjustment", team_news |-> n] :
            n \in TeamNewsInputs}
    \cup {[step |-> "call", op |-> "analyze", market |-> t, model |-> u] :
            t \in Triples, u \in Triples}
    \cup {[step |-> "call", op |-> "favorite_from_probabilities", match |-> m, probabilities |-> t] :
            m \in Matches, t \in Triples}
    \cup {[step |-> "call", op |-> "format_conclusion", discrepancies |-> l] :
            l \in DiscrepancyLists}

Called(op) == ctx.step = "call" /\ ctx.op = op

Returned(ret) ==
    /\ last' = [op |-> ctx.op, ret |-> ret]
    /\ ctx' = [ctx EXCEPT !.step = "returned"]
    /\ UNCHANGED <<db, seq, clock, calls, cache>>

ImpliedProbabilities ==
    /\ Called("implied_probabilities")
    /\ Returned(implied_probabilities(ctx.raw_odds))

AdjustedProbabilities ==
    /\ Called("adjusted_probabilities")
    /\ Returned(adjusted_probabilities(ctx.market, ctx.xg_adj))

ExpectedGoalsAdjustment ==
    /\ Called("expected_goals_adjustment")
    /\ Returned(expected_goals_adjustment(ctx.team_news))

Analyze ==
    /\ Called("analyze")
    /\ Returned(analyze(ctx.market, ctx.model))

FavoriteFromProbabilities ==
    /\ Called("favorite_from_probabilities")
    /\ Returned(favorite_from_probabilities(ctx.match[1], ctx.match[2], ctx.probabilities.home, ctx.probabilities.draw, ctx.probabilities.away))

FormatConclusion ==
    /\ Called("format_conclusion")
    /\ Returned(format_conclusion(ctx.discrepancies))

InitAgents ==
    /\ db = {}
    /\ seq = 0
    /\ clock = 0
    /\ last = [op |-> "init", raised |-> FALSE]
    /\ ctx \in AgentCalls
    /\ calls = [t \in Processes |-> Idle]
    /\ cache = EmptyDict

NextAgents ==
    \/ ImpliedProbabilities
    \/ AdjustedProbabilities
    \/ ExpectedGoalsAdjustment
    \/ Analyze
    \/ FavoriteFromProbabilities
    \/ FormatConclusion

SpecAgents == InitAgents /\ [][NextAgents]_vars

\* An analysis run: the agents one after the other on the values of one match,
\* write given the five arguments of its signature, then the save of the
\* prediction.

\* The prices of OddsInputs, and prices that imply about (0.48, 0.22, 0.30).
AnalysisOdds == OddsInputs \cup {RawOdds(Ratio(25, 12), Ratio(50, 11), Ratio(10, 3))}

\* No absence; absences of the home side worth -0.30, -2/3, -0.67 and twice
\* -1/3; an absence of the away side worth -0.30 and one worth 2/3; one absence
\* on each side, -0.30 and 0.367.
AnalysisTeamNews ==
    {[home |-> <<>>, away |-> <<>>],
     [home |-> <<fneg(Ratio(3, 10))>>, away |-> <<>>],
     [home |-> <<fneg(Ratio(2, 3))>>, away |-> <<>>],
     [home |-> <<fneg(Ratio(67, 100))>>, away |-> <<>>],
     [home |-> <<fneg(Ratio(1, 3)), fneg(Ratio(1, 3))>>, away |-> <<>>],
     [home |-> <<>>, away |-> <<fneg(Ratio(3, 10))>>],
     [home |-> <<>>, away |-> <<Ratio(2, 3)>>],
     [home |-> <<fneg(Ratio(3, 10))>>, away |-> <<Ratio(367, 1000)>>]}

ComputeImplied ==
    /\ ctx.step = "inputs"
    /\ ctx' = [ctx EXCEPT !.step = "implied", !.implied = implied_probabilities(ctx.raw_odds)]
    /\ UNCHANGED <<db, seq, clock, last, calls, cache>>

ModelImpact ==
    /\ ctx.step = "implied"
    /\ LET out == model_impact(ctx.implied, ctx.team_news)
       IN  ctx' = [ctx EXCEPT !.step = "adjusted",
                              !.xg_adjustment = out.xg_adjustment,
                              !.adjusted_probabilities = out.adjusted_probabilities]
    /\ UNCHANGED <<db, seq, clock, last, calls, cache>>

AnalyzeDiscrepancies ==
    /\ ctx.step = "adjusted"
    /\ ctx' = [ctx EXCEPT !.step = "analyzed",
                          !.discrepancies = analyze(ctx.implied, ctx.adjusted_probabilities)]
    /\ UNCHANGED <<db, seq, clock, last, calls, cache>>

WriteReport ==
    /\ ctx.step = "analyzed"
    /\ ctx' = [ctx EXCEPT !.step = "report",
                          !.report = write(ctx.match, ctx.implied, ctx.adjusted_probabilities,
                                           ctx.team_news, ctx.discrepancies)]
    /\ UNCHANGED <<db, seq, clock, last, calls, cache>>

SaveAnalysis ==
    /\ ctx.step = "report"
    /\ save_prediction(ctx.match[1], ctx.match[2], ctx.match[3],
                       save_arguments(ctx.raw_odds, ctx.report), clock)
    /\ ctx' = [ctx EXCEPT !.step = "saved"]
    /\ UNCHANGED <<calls, cache>>

InitAnalysis ==
    /\ db = {}
    /\ seq = 0
    /\ clock = 0
    /\ last = [op |-> "init", raised |-> FALSE]
    /\ ctx \in {[step |-> "inputs", match |-> m, raw_odds |-> o, team_news |-> n,
                 implied |-> NULL, xg_adjustment |-> NULL, adjusted_probabilities |-> NULL,
                 discrepancies |-> NULL, report |-> NULL] :
                    m \in Matches, o \in AnalysisOdds, n \in AnalysisTeamNews}
    /\ calls = [t \in Processes |-> Idle]
    /\ cache = EmptyDict

NextAnalysis ==
    \/ ComputeImplied
    \/ ModelImpact
    \/ AnalyzeDiscrepancies
    \/ WriteReport
    \/ SaveAnalysis

SpecAnalysis == InitAnalysis /\ [][NextAnalysis]_vars

\* run_offline_pipeline as its callers call it.  ctx.step is the statement the
\* run is at; a run that raises ends at step "raised" with ctx.error.

\* The keyword arguments of the four calls: main's single-match call, main's
\* multi-match call, and the calls of /analyze and /analyze-all.
Callers ==
    [main |-> {"match", "raw_odds", "team_news"},
     main_multi |-> {"match", "raw_odds", "team_news", "verbose"},
     analyze_match |-> {"match", "raw_odds", "team_news", "verbose"},
     analyze_all_matches |-> {"match", "raw_odds", "team_news", "verbose"}]

\* The keyword-only parameters of run_offline_pipeline; none has a default.
run_offline_pipeline_parameters == {"match", "raw_odds", "team_news"}

\* The positional parameters of ReportWriterAgent.write; none has a default.
write_parameters == <<"match", "implied", "adjusted", "team_news", "discrepancies">>

\* ReportWriterAgent.write called with the positional arguments args.
call_write(args) ==
    IF Len(args) # Len(write_parameters) THEN [error |-> "TypeError"]
    ELSE [error |-> "none", report |-> write(args[1], args[2], args[3], args[4], args[5])]

\* TeamNewsAgent.validate: the model dumped and validated again.
validate(team_news) == [home |-> team_news.home, away |-> team_news.away]

Raise(error) ==
    /\ ctx' = [ctx EXCEPT !.step = "raised", !.error = error]
    /\ UNCHANGED <<db, seq, clock, last, calls, cache>>

Step(c) ==
    /\ ctx' = c
    /\ UNCHANGED <<db, seq, clock, last, calls, cache>>

\* The call binds its keyword arguments and builds the PipelineContext.
RunOfflinePipeline ==
    /\ ctx.step = "call"
    /\ IF Callers[ctx.caller] = run_offline_pipeline_parameters
       THEN Step([ctx EXCEPT !.step = "emit_inputs"])
       ELSE Raise("TypeError")

EmitInputsTool ==
    /\ ctx.step = "emit_inputs"
    /\ Step([ctx EXCEPT !.step = "compute_implied_probabilities"])

ComputeImpliedProbabilitiesTool ==
    /\ ctx.step = "compute_implied_probabilities"
    /\ LET implied == implied_probabilities(ctx.raw_odds)
       IN  IF implied.error # "none" THEN Raise(implied.error)
           ELSE Step([ctx EXCEPT !.step = "validate_team_news", !.implied = implied])

ValidateTeamNewsTool ==
    /\ ctx.step = "validate_team_news"
    /\ Step([ctx EXCEPT !.step = "model_impact",
                        !.validated_team_news = validate(ctx.team_news)])

ModelImpactTool ==
    /\ ctx.step = "model_impact"
    /\ IF ctx.implied = NULL \/ ctx.validated_team_news = NULL THEN Raise("ValueError")
       ELSE LET out == model_impact(ctx.implied, ctx.validated_team_news)
            IN  Step([ctx EXCEPT !.step = "analyze_discrepancies",
                                 !.xg_adjustment = out.xg_adjustment,
                                 !.adjusted_probabilities = out.adjusted_probabilities])

AnalyzeDiscrepanciesTool ==
    /\ ctx.step = "analyze_discrepancies"
    /\ IF ctx.implied = NULL \/ ctx.adjusted_probabilities = NULL THEN Raise("ValueError")
       ELSE Step([ctx EXCEPT !.step = "write_report",
                             !.discrepancies = analyze(ctx.implied, ctx.adjusted_probabilities)])

\* WriteReportTool._run, and the return of run_offline_pipeline after it.
WriteReportTool ==
    /\ ctx.step = "write_report"
    /\ IF ctx.validated_team_news = NULL \/ ctx.discrepancies = NULL THEN Raise("ValueError")
       ELSE LET out == call_write(<<ctx.match, ctx.validated_team_news, ctx.discrepancies>>)
            IN  IF out.error # "none" THEN Raise(out.error)
                ELSE Step([ctx EXCEPT !.step = "returned", !.report = out.report])

InitPipeline ==
    /\ db = {}
    /\ seq = 0
    /\ clock = 0
    /\ last = [op |-> "init", raised |-> FALSE]
    /\ ctx \in {[step |-> "call", caller |-> c, error |-> "none",
                 match |-> m, raw_odds |-> o, team_news |-> n,
                 implied |-> NULL, validated_team_news |-> NULL, xg_adjustment |-> NULL,
                 adjusted_probabilities |-> NULL, discrepancies |-> NULL, report |-> NULL] :
                    c \in DOMAIN Callers, m \in Matches,
                    o \in AnalysisOdds, n \in AnalysisTeamNews}
    /\ calls = [t \in Processes |-> Idle]
    /\ cache = EmptyDict

NextPipeline ==
    \/ RunOfflinePipeline
    \/ EmitInputsTool
    \/ ComputeImpliedProbabilitiesTool
    \/ ValidateTeamNewsTool
    \/ ModelImpactTool
    \/ AnalyzeDiscrepanciesTool
    \/ WriteReportTool

SpecPipeline == InitPipeline /\ [][NextPipeline]_vars

\* get_all_upcoming_matches on the responses of the odds source.

\* What a bookmaker offers: two sets of valid prices, then a missing price, a
\* zero price, a price of 1.0 and a price below 1.0.
Offers ==
    {<<Some(250), Some(350), Some(400)>>,
     <<Some(200), Some(300), Some(500)>>,
     <<NULL, Some(350), Some(400)>>,
     <<Some(250), Some(0), Some(400)>>,
     <<Some(100), Some(350), Some(400)>>,
     <<Some(250), Some(350), Some(50)>>}

MaxBookmakers == 2

\* The responses of get_premier_league_odds: at most two matches.
OddsResponses ==
    LET books == SeqsUpTo(Offers, MaxBookmakers)
        first == {[home_team |-> ManUtd, away_team |-> Arsenal, bookmakers |-> b] : b \in books}
        second == {[home_team |-> Arsenal, away_team |-> ManUtd, bookmakers |-> b] : b \in books}
    IN  {<<>>} \cup {<<m>> : m \in first} \cup {<<m, n>> : m \in first, n \in second}

GetAllUpcomingMatches ==
    /\ Called("get_all_upcoming_matches")
    /\ Returned(get_all_upcoming_matches(ctx.matches, <<>>))

InitOdds ==
    /\ db = {}
    /\ seq = 0
    /\ clock = 0
    /\ last = [op |-> "init", raised |-> FALSE]
    /\ ctx \in {[step |-> "call", op |-> "get_all_upcoming_matches", matches |-> r] :
                    r \in OddsResponses}
    /\ calls = [t \in Processes |-> Idle]
    /\ cache = EmptyDict

NextOdds == GetAllUpcomingMatches

SpecOdds == InitOdds /\ [][NextOdds]_vars

\* The store under two processes, each statement of a call a step of its own.
\* A connection's SELECT runs outside any transaction; the statements from an
\* INSERT or UPDATE to the commit hold the write lock and are one step.

ConcurrentMatches == {<<ManUtdU21, Arsenal, Kickoff1>>, <<Arsenal, ManUtd, Kickoff1>>}

ConcurrentResults == {<<"home", 2, 1>>}

\* What get_metrics would report of store d if it read it at once.
Counts(d) ==
    [total |-> Cardinality(d),
     validated |-> Len(get_validated(d)),
     pending |-> Len(get_pending(d))]

\* The call c of another process, told that the store has become d through a
\* save of payload p for match_id (p is NULL for an update_result).
Observe(c, d, match_id, p) ==
    IF c.pc = "get_metrics" THEN [c EXCEPT !.states = @ \cup {Counts(d)}]
    ELSE IF c.pc = "save_prediction" /\ match_id_of[c.match] = match_id /\ ~IsNull(p)
    THEN [c EXCEPT !.others = @ \cup {Val(p)}]
    ELSE c

\* save_prediction up to its SELECT
SaveSelect(t) ==
    /\ calls[t] = Idle
    /\ \E m \in ConcurrentMatches :
         \E p \in Payloads(m[1], m[2]) :
            calls' = [calls EXCEPT ![t] =
                        [pc |-> "save_prediction", match |-> m, p |-> p,
                         found |-> select_row(db, match_id_of[m]), others |-> {}]]
    /\ UNCHANGED <<db, seq, clock, last, ctx, cache>>

\* save_prediction from its UPDATE or INSERT to its return
SaveWrite(t) ==
    LET c == calls[t]
    IN  /\ c.pc = "save_prediction"
        /\ save_prediction_write(c.match[1], c.match[2], c.match[3], c.p, clock, c.found)
        /\ calls' = [u \in Processes |->
                        IF u = t THEN Idle
                        ELSE Observe(calls[u], db', match_id_of[c.match], Some(c.p))]
        /\ ctx' = [step |-> "returned", process |-> t, call |-> c]
        /\ UNCHANGED cache

UpdateResultBy(t) ==
    /\ calls[t] = Idle
    /\ \E m \in ConcurrentMatches, r \in ConcurrentResults :
         /\ update_result(match_id_of[m], r[1], r[2], r[3])
         /\ calls' = [u \in Processes |->
                         IF u = t THEN Idle
                         ELSE Observe(calls[u], db', match_id_of[m], NULL)]
    /\ UNCHANGED <<ctx, cache>>

\* get_metrics up to the return of get_validated
ReadValidated(t) ==
    /\ calls[t] = Idle
    /\ calls' = [calls EXCEPT ![t] =
                    [pc |-> "get_metrics", validated |-> get_validated(db),
                     states |-> {Counts(db)}]]
    /\ UNCHANGED <<db, seq, clock, last, ctx, cache>>

\* get_metrics from get_pending to its return
ReadPending(t) ==
    LET c == calls[t]
    IN  /\ c.pc = "get_metrics"
        /\ last' = [op |-> "get_metrics", raised |-> FALSE,
                    ret |-> metrics_of(c.validated, get_pending(db))]
        /\ calls' = [calls EXCEPT ![t] = Idle]
        /\ ctx' = [step |-> "returned", process |-> t, call |-> c]
        /\ UNCHANGED <<db, seq, clock, cache>>

NextConcurrent ==
    \E t \in Processes :
        \/ SaveSelect(t)
        \/ SaveWrite(t)
        \/ UpdateResultBy(t)
        \/ ReadValidated(t)
        \/ ReadPending(t)

SpecConcurrent == Init /\ [][NextConcurrent]_vars

\* One SimpleCache under two threads.  The interpreter may switch threads
\* between any two bytecodes, so each access of self._cache in get is a step.
\* ctx.stored[k] holds the values set has stored under k.

Threads == {"t1", "t2"}

Keys == {"k1", "k2"}

Values == {"a", "b"}

\* The call of thread t ends: with KeyError when raised, else returning ret.
CacheReturn(t, op, key, raised, ret) ==
    /\ last' = [op |-> op, thread |-> t, key |-> key, raised |-> raised, ret |-> ret]
    /\ calls' = [calls EXCEPT ![t] = Idle]

\* get: "if key not in self._cache: return None"
GetCheck(t) ==
    /\ calls[t] = Idle
    /\ \E key \in Keys :
         IF has_key(cache, key)
         THEN /\ calls' = [calls EXCEPT ![t] = [pc |-> "get_read", key |-> key]]
              /\ UNCHANGED last
         ELSE CacheReturn(t, "get", key, FALSE, NULL)
    /\ UNCHANGED <<db, seq, clock, ctx, cache>>

\* get: "timestamp, value = self._cache[key]"
GetRead(t) ==
    LET c == calls[t]
    IN  /\ c.pc = "get_read"
        /\ IF has_key(cache, c.key)
           THEN /\ calls' = [calls EXCEPT ![t] =
                                [pc |-> "get_expiry", key |-> c.key,
                                 timestamp |-> cache[c.key][1], value |-> cache[c.key][2]]]
                /\ UNCHANGED last
           ELSE CacheReturn(t, "get", c.key, TRUE, NULL)
        /\ UNCHANGED <<db, seq, clock, ctx, cache>>

\* get: "if time.time() - timestamp > self.ttl_seconds", and "return value"
GetExpiry(t) ==
    LET c == calls[t]
    IN  /\ c.pc = "get_expiry"
        /\ \E now \in clock..MaxClock :
             /\ clock' = now
             /\ IF expired(now, c.timestamp)
                THEN /\ calls' = [calls EXCEPT ![t] = [pc |-> "get_del", key |-> c.key]]
                     /\ UNCHANGED last
                ELSE CacheReturn(t, "get", c.key, FALSE, Some(c.value))
        /\ UNCHANGED <<db, seq, ctx, cache>>

\* get: "del self._cache[key]" and "return None"
GetDel(t) ==
    LET c == calls[t]
    IN  /\ c.pc = "get_del"
        /\ IF has_key(cache, c.key)
           THEN /\ cache' = del_item(cache, c.key)
                /\ CacheReturn(t, "get", c.key, FALSE, NULL)
           ELSE /\ UNCHANGED cache
                /\ CacheReturn(t, "get", c.key, TRUE, NULL)
        /\ UNCHANGED <<db, seq, clock, ctx>>

CacheSet(t) ==
    /\ calls[t] = Idle
    /\ \E key \in Keys, value \in Values, now \in clock..MaxClock :
         /\ clock' = now
         /\ cache' = set_item(cache, key, <<now, value>>)
         /\ ctx' = [ctx EXCEPT !.stored[key] = @ \cup {value}]
         /\ CacheReturn(t, "set", key, FALSE, NULL)
    /\ UNCHANGED <<db, seq>>

CacheClear(t) ==
    /\ calls[t] = Idle
    /\ cache' = EmptyDict
    /\ CacheReturn(t, "clear", "", FALSE, NULL)
    /\ UNCHANGED <<db, seq, clock, ctx>>

InitCache ==
    /\ db = {}
    /\ seq = 0
    /\ clock = 0
    /\ last = [op |-> "init", raised |-> FALSE]
    /\ ctx = [step |-> "cache", stored |-> [k \in Keys |-> {}]]
    /\ calls = [t \in Threads |-> Idle]
    /\ cache = EmptyDict

NextCache ==
    \E t \in Threads :
        \/ GetCheck(t)
        \/ GetRead(t)
        \/ GetExpiry(t)
        \/ GetDel(t)
        \/ CacheSet(t)
        \/ CacheClear(t)

SpecCache == InitCache /\ [][NextCache]_vars

----------------------------------------------------------------------------
(* Properties *)

Saved(l) == l.op = "save_prediction" /\ ~l.raised

ResultFields(r) == <<r.actual_result, r.home_goals, r.away_goals>>

\* The record without its three result columns.
NonResultFields(r) ==
    [r EXCEPT !.actual_result = NULL, !.home_goals = NULL, !.away_goals = NULL]

SameTeamsDate(x, y) ==
    /\ x.home_team = y.home_team
    /\ x.away_team = y.away_team
    /\ prefix(x.match_date, DatePartLen) = prefix(y.match_date, DatePartLen)

Stored(d, match_id) == {r \in d : r.match_id = match_id}

Range(s) == {s[i] : i \in 1..Len(s)}

\* C1: a save_prediction for the teams and date of a record whose result
\* update_result has set leaves that record's actual_result, home_goals and
\* away_goals as they were, and returns them in its Prediction.
C1_UpsertPreservesResults ==
    [][Saved(last') =>
        \A r \in db :
            ~IsNull(r.actual_result) /\ SameTeamsDate(r, last'.ret) =>
                /\ \E r2 \in db' : r2.id = r.id /\ ResultFields(r2) = ResultFields(r)
                /\ ResultFields(last'.ret) = ResultFields(r)]_vars

C1_Witness ==
    /\ Saved(last) /\ last.existed
    /\ ~IsNull(last.ret.actual_result)
    /\ \E r \in db : /\ r.id = last.ret.id
                     /\ SameTeamsDate(r, last.ret)
                     /\ ResultFields(r) = ResultFields(last.ret)
                     /\ r.home_odds = last.ret.home_odds

\* C2: after every operation no two stored records have the same match_id
\* (the table starts empty), and a save_prediction whose match_id is already
\* stored does not add a record.
C2_OnePredictionPerMatch ==
    [][/\ \A r1, r2 \in db' : r1.match_id = r2.match_id => r1 = r2
       /\ Saved(last') /\ Stored(db, last'.ret.match_id) # {} =>
              Cardinality(db') = Cardinality(db)]_vars

C2_Witness ==
    /\ Saved(last) /\ last.existed
    /\ Cardinality(db) = 2

\* C3: two save_prediction calls get the same match_id exactly when they name
\* the same home team, the same away team and the same date portion.
C3_MatchIdUniquePerTeamsDate ==
    [][Saved(last) /\ Saved(last') =>
        ((last.ret.match_id = last'.ret.match_id) <=> SameTeamsDate(last.ret, last'.ret))]_vars

\* C4: after a save_prediction for a match_id that was already stored, the
\* record stored under that match_id equals the returned Prediction field for
\* field (so every field but the result columns has the value passed).
C4_ReturnsStoredRecord ==
    [][Saved(last') /\ Stored(db, last'.ret.match_id) # {} =>
        Stored(db', last'.ret.match_id) = {last'.ret}]_vars

\* C5 as stated: a save_prediction with the arguments of the call before it
\* leaves exactly one record for the match, equal in every field to the record
\* stored after the first call.
C5_IdenticalSaveSameRecord ==
    [][Saved(last') /\ last'.repeated =>
        /\ Cardinality(Stored(db', last'.ret.match_id)) = 1
        /\ Stored(db', last'.ret.match_id) = Stored(db, last'.ret.match_id)]_vars

\* C5 amended: a save_prediction with the arguments of the call before it
\* leaves exactly one record for the match, with the same match_id and the same
\* value in every field except prediction_time, which is the time of the
\* second call.
C5_IdenticalSaveSameRecordButTime ==
    [][Saved(last') /\ last'.repeated =>
        /\ Cardinality(Stored(db', last'.ret.match_id)) = 1
        /\ Stored(db', last'.ret.match_id) =
              { [r EXCEPT !.prediction_time = last'.ret.prediction_time] :
                    r \in Stored(db, last'.ret.match_id) }]_vars

C5_Witness ==
    /\ Saved(last) /\ last.repeated /\ last.existed
    /\ last.ret \in db
    /\ last.ret.prediction_time = MaxClock

\* C6: under save_prediction and validate_pending, result columns that are
\* set are never changed again, by either operation.
C6_ResultWrittenOnce ==
    [][\A r \in db :
          ~IsNull(r.actual_result) =>
              \E r2 \in db' : r2.id = r.id /\ ResultFields(r2) = ResultFields(r)]_vars

\* A run that fetched another score for an already validated prediction.
C6_Witness ==
    /\ last.op = "validate_pending"
    /\ \E r \in db :
          LET lookup == results_lookup(last.completed, EmptyDict)
          IN  /\ ~IsNull(r.actual_result)
              /\ pred_key(r) \in DOMAIN lookup
              /\ lookup[pred_key(r)].home_goals # Val(r.home_goals)

\* C7: update_result for a stored match_id sets the three result columns of
\* that record to the values given, changes no other column and no other
\* record, and changes nothing at all when the record already has the values.
C7_UpdateResultLastWriteWins ==
    [][\A match_id \in MatchIds, a \in ResultInputs :
          update_result(match_id, a[1], a[2], a[3]) /\ Stored(db, match_id) # {} =>
              /\ \A r \in db : r.match_id # match_id => r \in db'
              /\ \A r2 \in db' : r2.match_id # match_id => r2 \in db
              /\ \A r \in Stored(db, match_id) :
                    \E r2 \in db' : /\ NonResultFields(r2) = NonResultFields(r)
                                    /\ ResultFields(r2) = <<Some(a[1]), Some(a[2]), Some(a[3])>>
              /\ Cardinality(db') = Cardinality(db)
              /\ (\A r \in Stored(db, match_id) :
                     ResultFields(r) = <<Some(a[1]), Some(a[2]), Some(a[3])>>) => db' = db
              /\ seq' = seq /\ clock' = clock]_vars

C7_Witness ==
    /\ last.op = "update_result" /\ last.ret
    /\ \E r1, r2 \in db : /\ r1.id # r2.id
                          /\ ~IsNull(r1.actual_result)
                          /\ ResultFields(r1) # ResultFields(r2)

\* C8: update_result returns true exactly when a record with the match_id is
\* stored; when none is, it returns false and the table is unchanged.
C8_UpdateResultReturnsFound ==
    [][\A match_id \in MatchIds, a \in ResultInputs :
          update_result(match_id, a[1], a[2], a[3]) =>
              /\ last'.ret <=> Stored(db, match_id) # {}
              /\ Stored(db, match_id) = {} => ~last'.ret /\ db' = db]_vars

C8_Witness ==
    /\ last.op = "update_result" /\ ~last.ret
    /\ db # {}

\* The fixtures of a fetched list that have both goals and the key of p.
Matching(p, completed) ==
    { f \in Range(completed) :
        /\ ~IsNull(f.home_goals) /\ ~IsNull(f.away_goals)
        /\ fixture_key(f) = pred_key(p) }

ResultOfGoals(home_goals, away_goals) ==
    IF home_goals > away_goals THEN "home"
    ELSE IF away_goals > home_goals THEN "away"
    ELSE "draw"

\* C9: after validate_pending, every prediction that was pending and whose key
\* matches a fetched fixture with final goals holds the goals of such a
\* fixture and the result they give; get_metrics counts it under validated and
\* not under pending.
C9_ValidatorDerivesResult ==
    [][last'.op = "validate_pending" =>
        LET matched == {p \in db : IsNull(p.actual_result) /\ Matching(p, last'.completed) # {}}
        IN  /\ \A p \in matched :
                  \E q \in db' :
                      /\ q.id = p.id
                      /\ \E f \in Matching(p, last'.completed) :
                            q.home_goals = f.home_goals /\ q.away_goals = f.away_goals
                      /\ q.actual_result = Some(ResultOfGoals(Val(q.home_goals), Val(q.away_goals)))
                      /\ q \in Range(get_validated(db'))
                      /\ q \notin Range(get_pending(db'))
            /\ get_metrics(db').validated = get_metrics(db).validated + Cardinality(matched)
            /\ get_metrics(db').pending = get_metrics(db).pending - Cardinality(matched)]_vars

C9_Witness ==
    /\ last.op = "validate_pending"
    /\ last.ret.updated = 2
    /\ Len(last.completed) = 2
    /\ get_metrics(db).validated = 2
    /\ \E r \in db : r.actual_result = Some("home") /\ r.home_goals = Some(2)

\* C10: a validate_pending run whose fixture request fails does not raise,
\* reports updated = 0 and still_pending = the number of pending predictions,
\* and leaves the table unchanged.
C10_FetchFailureTolerated ==
    [][last'.op = "validate_pending" /\ last'.fetch = "error" =>
        /\ ~last'.raised
        /\ last'.ret.updated = 0
        /\ last'.ret.still_pending = Len(get_pending(db))
        /\ db' = db]_vars

C10_Witness ==
    /\ last.op = "validate_pending" /\ last.fetch = "error"
    /\ last.ret.updated = 0
    /\ last.ret.still_pending = 1
    /\ \E r \in db : ~IsNull(r.actual_result)

\* C11: the not_found count returned by validate_pending equals the number of
\* predictions pending at the start of the run minus the number it updated.
C11_NotFoundIsPendingMinusUpdated ==
    [][last'.op = "validate_pending" =>
        last'.ret.not_found = Len(get_pending(db)) - last'.ret.updated]_vars

\* The agent call `op` has returned.
Done(op) == ctx.step = "returned" /\ ctx.op = op

\* home + draw + away, as Python adds them
sum3(t) == fadd(fadd(t.home, t.draw), t.away)

\* Four units of roundoff: three divisions and two additions, each rounded once.
Tolerance == Ratio(4, 2^FloatBits)

Near(x, y) == fle(fabs(fsub(x, y)), Tolerance)

\* C15: for every xG adjustment and every market triple, the shift applied by
\* adjusted_probabilities is at most 0.15 in absolute value, the call does not
\* fail with the ValueError of _clip_and_normalize, and the returned triple
\* sums to 1 with every component greater than 0.
C15_AdjustedIsDistribution ==
    Done("adjusted_probabilities") =>
        /\ fle(fabs(shift_of(ctx.xg_adj)), MAX_ABS_SHIFT)
        /\ last.ret.error = "none"
        /\ sum3(last.ret) = One
        /\ flt(Zero, last.ret.home) /\ flt(Zero, last.ret.draw) /\ flt(Zero, last.ret.away)

\* C15, amended: as C15, with the sum equal to 1 up to floating-point rounding.
C15_AdjustedIsDistributionRounded ==
    Done("adjusted_probabilities") =>
        /\ fle(fabs(shift_of(ctx.xg_adj)), MAX_ABS_SHIFT)
        /\ last.ret.error = "none"
        /\ Near(sum3(last.ret), One)
        /\ flt(Zero, last.ret.home) /\ flt(Zero, last.ret.draw) /\ flt(Zero, last.ret.away)

C15_Witness ==
    /\ Done("adjusted_probabilities")
    /\ shift_of(ctx.xg_adj) = MAX_ABS_SHIFT
    /\ flt(fsub(ctx.market.away, MAX_ABS_SHIFT), EPS)
    /\ last.ret.error = "none"
    /\ flt(Zero, last.ret.away)
    /\ Near(sum3(last.ret), One)

\* C16: for odds each greater than 1.0, implied_probabilities returns three
\* probabilities, each at least 0 and each the reciprocal of its price divided
\* by the overround, that sum to 1; the overround it reports is the sum of the
\* three reciprocals.
C16_ImpliedIsDistribution ==
    Done("implied_probabilities") =>
        LET raw_home == fdiv(One, ctx.raw_odds.home_win)
            raw_draw == fdiv(One, ctx.raw_odds.draw)
            raw_away == fdiv(One, ctx.raw_odds.away_win)
        IN  /\ last.ret.error = "none"
            /\ fle(Zero, last.ret.home) /\ fle(Zero, last.ret.draw) /\ fle(Zero, last.ret.away)
            /\ sum3(last.ret) = One
            /\ last.ret.overround = fadd(fadd(raw_home, raw_draw), raw_away)
            /\ last.ret.home = fdiv(raw_home, last.ret.overround)
            /\ last.ret.draw = fdiv(raw_draw, last.ret.overround)
            /\ last.ret.away = fdiv(raw_away, last.ret.overround)

\* C16, amended: as C16, with the sum equal to 1 up to floating-point rounding.
C16_ImpliedIsDistributionRounded ==
    Done("implied_probabilities") =>
        LET raw_home == fdiv(One, ctx.raw_odds.home_win)
            raw_draw == fdiv(One, ctx.raw_odds.draw)
            raw_away == fdiv(One, ctx.raw_odds.away_win)
        IN  /\ last.ret.error = "none"
            /\ fle(Zero, last.ret.home) /\ fle(Zero, last.ret.draw) /\ fle(Zero, last.ret.away)
            /\ Near(sum3(last.ret), One)
            /\ last.ret.overround = fadd(fadd(raw_home, raw_draw), raw_away)
            /\ last.ret.home = fdiv(raw_home, last.ret.overround)
            /\ last.ret.draw = fdiv(raw_draw, last.ret.overround)
            /\ last.ret.away = fdiv(raw_away, last.ret.overround)

C16_Witness ==
    /\ Done("implied_probabilities")
    /\ ctx.raw_odds = RawOdds(Float(2), Ratio(35, 10), Float(4))
    /\ last.ret.error = "none"
    /\ flt(One, last.ret.overround)
    /\ flt(last.ret.away, last.ret.draw) /\ flt(last.ret.draw, last.ret.home)

\* C17: when the home and away xG deltas are equal, as with no absence on
\* either side, the shift is 0 and adjusted_probabilities returns the implied
\* probabilities it was given, each component unchanged.
C17_NoNewsNoChange ==
    Done("adjusted_probabilities")
        /\ ctx.xg_adj.home_xg_delta = ctx.xg_adj.away_xg_delta
        /\ Near(sum3(ctx.market), One) =>
            /\ shift_of(ctx.xg_adj) = Zero
            /\ last.ret.error = "none"
            /\ last.ret.home = ctx.market.home
            /\ last.ret.draw = ctx.market.draw
            /\ last.ret.away = ctx.market.away

Outcomes == <<"home", "draw", "away">>

\* The place of an outcome in the order home, draw, away.
Place(outcome) == CHOOSE i \in 1..3 : Outcomes[i] = outcome

Prob(t, outcome) ==
    IF outcome = "home" THEN t.home ELSE IF outcome = "draw" THEN t.draw ELSE t.away

\* C18: analyze returns three entries, one for each of home, draw and away,
\* each with the two probabilities of its outcome and delta = model - market;
\* |delta| does not increase along the list, and entries of equal |delta| are
\* in the order home, draw, away.
C18_RankedByAbsDelta ==
    Done("analyze") =>
        LET ret == last.ret
        IN  /\ Len(ret) = 3
            /\ {ret[i].outcome : i \in 1..3} = {"home", "draw", "away"}
            /\ \A i \in 1..3 :
                  /\ ret[i].market_probability = Prob(ctx.market, ret[i].outcome)
                  /\ ret[i].model_probability = Prob(ctx.model, ret[i].outcome)
                  /\ ret[i].delta = fsub(ret[i].model_probability, ret[i].market_probability)
            /\ \A i, j \in 1..3 :
                  i < j =>
                      /\ fle(fabs(ret[j].delta), fabs(ret[i].delta))
                      /\ fabs(ret[j].delta) = fabs(ret[i].delta) =>
                            Place(ret[i].outcome) < Place(ret[j].outcome)

C18_Witness ==
    /\ Done("analyze")
    /\ last.ret[1].outcome = "home" /\ last.ret[2].outcome = "away" /\ last.ret[3].outcome = "draw"
    /\ last.ret[1].delta = fneg(last.ret[2].delta)
    /\ flt(Zero, last.ret[2].delta)
    /\ last.ret[3].delta = Zero

\* C20: the favorite of a triple is an outcome of greatest probability, the
\* first such outcome in the order home, draw, away, and its label is the home
\* team's name, "Draw" or the away team's name.
C20_FavoriteIsFirstMaximum ==
    Done("favorite_from_probabilities") =>
        LET t == ctx.probabilities
            ret == last.ret
        IN  /\ ret.outcome \in {"home", "draw", "away"}
            /\ ret.probability = Prob(t, ret.outcome)
            /\ \A o \in {"home", "draw", "away"} :
                  /\ fle(Prob(t, o), ret.probability)
                  /\ Prob(t, o) = ret.probability => Place(ret.outcome) <= Place(o)
            /\ ret.label = (IF ret.outcome = "home" THEN ctx.match[1]
                            ELSE IF ret.outcome = "draw" THEN DrawLabel
                            ELSE ctx.match[2])

C20_Witness ==
    /\ Done("favorite_from_probabilities")
    /\ ctx.probabilities.draw = ctx.probabilities.away
    /\ flt(ctx.probabilities.home, ctx.probabilities.draw)
    /\ last.ret.outcome = "draw"
    /\ last.ret.label = DrawLabel

Chars(str3, d1, d2, d3) == <<str3, ".", d1, d2, d3>>

\* The report of a run whose market has home 0.480 and away 0.300 as favorite
\* and runner-up, and whose model has away as favorite at 0.400.
Scenario ==
    /\ ctx.step = "report"
    /\ format_3f(ctx.implied.home) = Chars("0", "4", "8", "0")
    /\ format_3f(ctx.implied.away) = Chars("0", "3", "0", "0")
    /\ format_3f(ctx.adjusted_probabilities.away) = Chars("0", "4", "0", "0")
    /\ ctx.report.market_favorite.outcome = "home"
    /\ ctx.report.model_favorite.outcome = "away"

\* C19: in the scenario the first entry of the ranked list is the away outcome
\* with a positive delta of 0.100, and the conclusion says "higher" by 0.100.
C19_ScenarioTopIsAway ==
    Scenario =>
        /\ ctx.discrepancies[1].outcome = "away"
        /\ flt(Zero, ctx.discrepancies[1].delta)
        /\ format_3f(fabs(ctx.discrepancies[1].delta)) = Chars("0", "1", "0", "0")
        /\ ctx.report.conclusion.outcome = "away"
        /\ ctx.report.conclusion.direction = "higher"
        /\ ctx.report.conclusion.by = Chars("0", "1", "0", "0")

\* C19, amended: in the scenario the away entry has a delta of +0.100 and the
\* home entry one of -0.100; away is first only when its delta is the greater
\* in absolute value, and home is first otherwise, the two being equal but for
\* rounding; the conclusion names the first entry, "higher" by 0.100 for away
\* and "lower" by 0.100 for home.
C19_ScenarioTopIsHomeOrAway ==
    Scenario =>
        LET home_delta == fsub(ctx.adjusted_probabilities.home, ctx.implied.home)
            away_delta == fsub(ctx.adjusted_probabilities.away, ctx.implied.away)
            top == ctx.discrepancies[1]
        IN  /\ flt(home_delta, Zero) /\ flt(Zero, away_delta)
            /\ format_3f(fabs(home_delta)) = Chars("0", "1", "0", "0")
            /\ format_3f(fabs(away_delta)) = Chars("0", "1", "0", "0")
            /\ top.outcome = (IF flt(fabs(home_delta), fabs(away_delta)) THEN "away" ELSE "home")
            /\ top.delta = (IF top.outcome = "away" THEN away_delta ELSE home_delta)
            /\ ctx.discrepancies[3].outcome = "draw"
            /\ ctx.report.conclusion.outcome = top.outcome
            /\ ctx.report.conclusion.direction = (IF top.outcome = "away" THEN "higher" ELSE "lower")
            /\ ctx.report.conclusion.by = Chars("0", "1", "0", "0")

C19_Witness ==
    /\ Scenario
    /\ ctx.discrepancies[1].outcome = "home"
    /\ ctx.discrepancies[2].outcome = "away"
    /\ ctx.discrepancies[1].delta = fneg(ctx.discrepancies[2].delta)
    /\ ctx.report.conclusion.direction = "lower"
    /\ ctx.report.conclusion.by = Chars("0", "1", "0", "0")

\* C12: a save_prediction call whose SELECT found no record of the match, and
\* during which another save_prediction call stored one, completes without an
\* error, and afterwards the store holds exactly one record of the match, with
\* the values of one of the two calls.
C12_InterleavedSavesBothComplete ==
    (/\ last.op = "save_prediction"
     /\ ctx.step = "returned"
     /\ ctx.call.found = {}
     /\ ctx.call.others # {}) =>
        /\ ~last.raised
        /\ \E r \in db :
             /\ Stored(db, match_id_of[ctx.call.match]) = {r}
             /\ \E p \in {ctx.call.p} \cup ctx.call.others :
                  \A f \in DOMAIN p : r[f] = p[f]

\* C13: the numbers get_metrics returns are those of one state the store was in
\* during the call: total is the number of records of that state, validated
\* and pending the numbers of its records with and without a result.
C13_MetricsOfOneState ==
    last.op = "get_metrics" =>
        /\ last.ret.total = last.ret.validated + last.ret.pending
        /\ \E s \in ctx.call.states :
             /\ last.ret.total = s.total
             /\ last.ret.validated = s.validated
             /\ last.ret.pending = s.pending

\* C21: the conclusion names the outcome of the first entry and its absolute
\* delta, says "higher" exactly when that entry's model probability is greater
\* than its market probability and "lower" exactly when it is smaller, and
\* for an empty list says that no discrepancy items were generated.
C21_ConclusionDirection ==
    Done("format_conclusion") =>
        IF ctx.discrepancies = <<>>
        THEN last.ret.text = "No discrepancy items were generated."
        ELSE LET top == ctx.discrepancies[1]
             IN  /\ last.ret.outcome = top.outcome
                 /\ last.ret.by = format_3f(fabs(fsub(top.model_probability, top.market_probability)))
                 /\ last.ret.direction \in {"higher", "lower"}
                 /\ last.ret.direction = "higher" <=> flt(top.market_probability, top.model_probability)
                 /\ last.ret.direction = "lower" <=> flt(top.model_probability, top.market_probability)

\* The label get_metrics compares the favorites with: the stored home team's
\* name for "home", the stored away team's for "away", "Draw" for a draw.
WinnerLabel(r) ==
    CASE Val(r.actual_result) = "home" -> r.home_team
      [] Val(r.actual_result) = "away" -> r.away_team
      [] Val(r.actual_result) = "draw" -> DrawLabel

\* C22: get_metrics counts over the validated records: market_correct and
\* model_correct the records whose favorite is the winner's label,
\* disagreements those whose two favorites differ, model_wins_when_disagreed
\* the disagreeing ones whose model favorite is the winner's label; both
\* rates are 0 when no record is validated.
C22_MetricsCountValidated ==
    last.op = "get_metrics" =>
        LET V == {r \in db : ~IsNull(r.actual_result)}
            D == {r \in V : r.market_favorite # r.model_favorite}
        IN  /\ last.ret.validated = Cardinality(V)
            /\ last.ret.market_correct = Cardinality({r \in V : r.market_favorite = WinnerLabel(r)})
            /\ last.ret.model_correct = Cardinality({r \in V : r.model_favorite = WinnerLabel(r)})
            /\ last.ret.disagreements = Cardinality(D)
            /\ last.ret.model_wins_when_disagreed = Cardinality({r \in D : r.model_favorite = WinnerLabel(r)})
            /\ V = {} => last.ret.market_accuracy = 0 /\ last.ret.model_accuracy = 0

\* Two validated records that both disagree, the market right about one and
\* the model about the other.
C22_Witness ==
    /\ last.op = "get_metrics"
    /\ last.ret.validated = 2
    /\ last.ret.disagreements = 2
    /\ last.ret.market_correct = 1
    /\ last.ret.model_correct = 1
    /\ last.ret.model_wins_when_disagreed = 1

\* C23: whatever the interleaving of get, set and clear calls of the threads,
\* no call raises, and a get returns None or a value that a set stored
\* under its key.
C23_CacheCallsNeverRaise ==
    last.op \in {"get", "set", "clear"} =>
        /\ ~last.raised
        /\ last.op = "get" => IsNull(last.ret) \/ Val(last.ret) \in ctx.stored[last.key]

\* The normalized key of two team names and a date: the names lowercased,
\* without spaces and cut to 15 characters, the date without separators.
NormalizedKey ==
    [t \in DOMAIN lookup_key_of |->
        LET home == replace(lower(t[1]), " ", <<>>)
            away == replace(lower(t[2]), " ", <<>>)
        IN  <<SubSeq(home, 1, Min(15, Len(home))),
              SubSeq(away, 1, Min(15, Len(away))),
              replace(t[3], "-", <<>>)>>]

\* The fetched fixtures with both goal values and the normalized key of p.
SameKeyFixtures(p, completed) ==
    { f \in Range(completed) :
        /\ ~IsNull(f.home_goals) /\ ~IsNull(f.away_goals)
        /\ NormalizedKey[<<f.home, f.away, prefix(f.date, 10)>>]
             = NormalizedKey[<<p.home_team, p.away_team, prefix(p.match_date, 10)>>] }

\* C24: validate_pending gives a prediction that was pending a result if and
\* only if a fetched fixture with both goal values has its normalized key; a
\* prediction without such a fixture stays as it was, and so does every
\* record that was validated before.
C24_UpdatedIffFixtureWithSameKey ==
    [][last'.op = "validate_pending" =>
        \A p \in db :
            IF IsNull(p.actual_result)
            THEN /\ SameKeyFixtures(p, last'.completed) # {} =>
                       \E q \in db' : q.id = p.id /\ ~IsNull(q.actual_result)
                 /\ SameKeyFixtures(p, last'.completed) = {} => p \in db'
            ELSE p \in db']_vars

\* A run that gave one prediction its result and left alone a validated one
\* for which it had fetched a fixture with other goals.
C24_Witness ==
    /\ last.op = "validate_pending"
    /\ last.ret.updated = 1
    /\ \E r \in db :
         /\ r.home_goals = Some(2)
         /\ SameKeyFixtures(r, last.completed) # {}
         /\ \A f \in SameKeyFixtures(r, last.completed) : f.home_goals = Some(0)

\* C25: a run of run_offline_pipeline on valid inputs, called as the CLI and
\* the API call it, goes through its six steps without raising, every step
\* finding the context values it needs, and returns a report whose favorites
\* are those of the run's implied and adjusted triples.
C25_PipelineReturnsReport ==
    /\ ctx.step # "raised"
    /\ ctx.step = "returned" =>
         /\ ctx.report.market_favorite =
               favorite_from_probabilities(ctx.match[1], ctx.match[2],
                                           ctx.implied.home, ctx.implied.draw, ctx.implied.away)
         /\ ctx.report.model_favorite =
               favorite_from_probabilities(ctx.match[1], ctx.match[2],
                                           ctx.adjusted_probabilities.home,
                                           ctx.adjusted_probabilities.draw,
                                           ctx.adjusted_probabilities.away)

\* The offers whose three prices are all present and greater than 1.0.
ValidOffers(match) ==
    {i \in 1..Len(match.bookmakers) :
        \A k \in 1..3 : /\ match.bookmakers[i][k] # NULL
                        /\ match.bookmakers[i][k][1] > 100}

\* The matches of the response that have a valid offer, in their order.
WithValidOdds(matches) == SelectSeq(matches, LAMBDA m : ValidOffers(m) # {})

\* C27: get_all_upcoming_matches does not fail; it returns the matches that
\* have valid prices at some bookmaker, in their order, each with prices that
\* one of its bookmakers offers and that are valid, and leaves out the others.
C27_InvalidOddsLeaveMatchOut ==
    Done("get_all_upcoming_matches") =>
        /\ last.ret.error = "none"
        /\ LET expected == WithValidOdds(ctx.matches)
           IN  /\ Len(last.ret.result) = Len(expected)
               /\ \A i \in 1..Len(expected) :
                    /\ last.ret.result[i].home_team = expected[i].home_team
                    /\ last.ret.result[i].away_team = expected[i].away_team
                    /\ \E k \in ValidOffers(expected[i]) :
                         last.ret.result[i].odds = expected[i].bookmakers[k]

\* 0.15 x (home_xg_delta - away_xg_delta), limited to [-0.15, 0.15]
ClampedShift(xg_adj) ==
    LET linear == fmul(Ratio(15, 100), fsub(xg_adj.home_xg_delta, xg_adj.away_xg_delta))
    IN  IF flt(Ratio(15, 100), linear) THEN Ratio(15, 100)
        ELSE IF flt(linear, fneg(Ratio(15, 100))) THEN fneg(Ratio(15, 100))
        ELSE linear

\* A triple of probabilities that sums to 1 up to rounding.
ValidMarket(t) ==
    /\ is_probability(t.home) /\ is_probability(t.draw) /\ is_probability(t.away)
    /\ Near(sum3(t), One)

\* C26: the shift is 0.15 x net clamped to [-0.15, 0.15]; when neither
\* market.home + shift nor market.away - shift is below 1e-9, the adjusted
\* triple is exactly (market.home + shift, market.draw, market.away - shift).
C26_ClampedLinearShift ==
    Done("adjusted_probabilities") /\ ValidMarket(ctx.market) =>
        LET shift == ClampedShift(ctx.xg_adj)
            home == fadd(ctx.market.home, shift)
            away == fsub(ctx.market.away, shift)
        IN  /\ shift_of(ctx.xg_adj) = shift
            /\ ~flt(home, Ratio(1, 1000000000)) /\ ~flt(away, Ratio(1, 1000000000)) =>
                  /\ last.ret.error = "none"
                  /\ last.ret.home = home
                  /\ last.ret.draw = ctx.market.draw
                  /\ last.ret.away = away

Net(xg_adj) == fsub(xg_adj.home_xg_delta, xg_adj.away_xg_delta)

\* x <= y + slack
AtMost(x, y, slack) == fle(x, fadd(y, slack))

Slack == fadd(Tolerance, Ratio(1, 1000000000))

C29_ResultAgreesWithGoals ==
    \A r \in db :
        \/ r.actual_result = NULL /\ r.home_goals = NULL /\ r.away_goals = NULL
        \/ /\ r.actual_result # NULL /\ r.home_goals # NULL /\ r.away_goals # NULL
           /\ r.actual_result[1] \in {"home", "draw", "away"}
           /\ r.actual_result[1] = "home" <=> r.home_goals[1] > r.away_goals[1]
           /\ r.actual_result[1] = "away" <=> r.away_goals[1] > r.home_goals[1]
           /\ r.actual_result[1] = "draw" <=> r.home_goals[1] = r.away_goals[1]

\* A store with an away win and a draw written by validate_pending.
C29_Witness ==
    /\ last.op = "validate_pending"
    /\ \E r \in db : r.actual_result = Some("away") /\ r.home_goals = Some(0)
    /\ \E r \in db : r.actual_result = Some("draw") /\ r.home_goals = Some(1)

\* C28: under save_prediction, update_result and validate_pending no record
\* is removed, a record that get_validated returns is returned by it ever
\* after and not by get_pending, and every record is returned by exactly one
\* of get_pending and get_validated.
C28_ValidationMonotonic ==
    [][/\ \A r \in db :
            \E r2 \in db' :
               /\ r2.id = r.id
               /\ r2.match_id = r.match_id
               /\ r \in Range(get_validated(db)) =>
                     r2 \in Range(get_validated(db')) /\ r2 \notin Range(get_pending(db'))
       /\ \A r2 \in db' :
            r2 \in Range(get_pending(db')) <=> r2 \notin Range(get_validated(db'))]_vars

\* A validated record saved again, next to a pending one.
C28_Witness ==
    /\ last.op = "save_prediction"
    /\ ~last.raised
    /\ last.existed
    /\ last.ret.actual_result # NULL
    /\ \E r \in db : r.id = last.ret.id /\ r \in Range(get_validated(db))
    /\ \E r \in db : r \in Range(get_pending(db))

====
